---------------------------- MODULE Spec2Model ----------------------------
(***************************************************************************)
(* NetSpeedGraphs (src/src/main.py): one run of main() measures the        *)
(* network, appends the result to a CSV file, reads the whole CSV back     *)
(* and plots it.                                                           *)
(*                                                                         *)
(* Text is modelled as a sequence of one-character strings, so that the    *)
(* CSV file is the character sequence the code writes and pandas reads.    *)
(* A float is modelled as a decimal [m, e] standing for m / 10^e, kept     *)
(* normalised (no trailing zero in the fraction); str() and the CSV float  *)
(* parser are inverse to each other on the shortest decimal form, as       *)
(* Python's repr is.  A timestamp is a clock reading n, written "T<n>" by  *)
(* isoformat().                                                            *)
(***************************************************************************)
EXTENDS Integers, Sequences, FiniteSets, TLC

(* ------------------------------ bounds -------------------------------- *)

\* Runs of main() started in one behaviour, over all processes.
MaxRuns == 2

\* Data rows of a store file that exists before the first run (SpecStored).
MaxStoredRows == 1

(* ------------------------------- text --------------------------------- *)

COMMA == ","

NL == "\n"

DigitChars == <<"0", "1", "2", "3", "4", "5", "6", "7", "8", "9">>

IsDigit(c) == \E i \in 1..10 : DigitChars[i] = c

DigitVal(c) == (CHOOSE i \in 1..10 : DigitChars[i] = c) - 1

RECURSIVE Digits(_)
\* The decimal digits of a natural number.
Digits(n) == IF n < 10 THEN <<DigitChars[n + 1]>>
             ELSE Digits(n \div 10) \o <<DigitChars[(n % 10) + 1]>>

RECURSIVE DigitsVal(_)
\* The natural number a sequence of digits reads as (0 for the empty one).
DigitsVal(s) == IF s = <<>> THEN 0
                ELSE 10 * DigitsVal(SubSeq(s, 1, Len(s) - 1)) + DigitVal(s[Len(s)])

AllDigits(s) == \A i \in 1..Len(s) : IsDigit(s[i])

RECURSIVE Pow10(_)
Pow10(e) == IF e = 0 THEN 1 ELSE 10 * Pow10(e - 1)

RECURSIVE ZeroPad(_, _)
ZeroPad(s, w) == IF Len(s) >= w THEN s ELSE ZeroPad(<<"0">> \o s, w)

RECURSIVE Join(_, _)
\* sep.join(parts)
Join(parts, sep) == IF parts = <<>> THEN <<>>
                    ELSE IF Len(parts) = 1 THEN parts[1]
                    ELSE parts[1] \o <<sep>> \o Join(Tail(parts), sep)

RECURSIVE Split(_, _)
\* The pieces of s between occurrences of sep (always at least one piece).
Split(s, sep) ==
    IF \A i \in 1..Len(s) : s[i] # sep THEN <<s>>
    ELSE LET k == CHOOSE i \in 1..Len(s) :
                      s[i] = sep /\ \A j \in 1..(i - 1) : s[j] # sep
         IN  <<SubSeq(s, 1, k - 1)>> \o Split(SubSeq(s, k + 1, Len(s)), sep)

IsPrefix(s, t) == Len(s) <= Len(t) /\ SubSeq(t, 1, Len(s)) = s

(* ------------------------------ floats -------------------------------- *)

RECURSIVE Norm(_)
\* The decimal m / 10^e without trailing zeros in its fraction.
Norm(x) == IF x.e > 0 /\ x.m % 10 = 0 THEN Norm([m |-> x.m \div 10, e |-> x.e - 1])
           ELSE x

Dec(m, e) == Norm([m |-> m, e |-> e])

\* bits/s -> Mbs: `down / 1e6`
DivMillion(bits) == Dec(bits, 6)

\* str(float): integer part, point, fraction (at least one digit).
StrFloat(x) ==
    IF x.e = 0 THEN Digits(x.m) \o <<".", "0">>
    ELSE Digits(x.m \div Pow10(x.e)) \o <<".">>
         \o ZeroPad(Digits(x.m % Pow10(x.e)), x.e)

\* Whether a CSV field reads as a number: digits, optionally a point and digits.
IsNumeric(s) ==
    LET parts == Split(s, ".")
    IN  /\ Len(parts) \in {1, 2}
        /\ parts[1] # <<>>
        /\ \A i \in 1..Len(parts) : AllDigits(parts[i])

\* The float a numeric CSV field reads as.
ParseFloat(s) ==
    LET parts == Split(s, ".")
        frac  == IF Len(parts) = 2 THEN parts[2] ELSE <<>>
    IN  Dec(DigitsVal(parts[1] \o frac), Len(frac))

(* ---------------------------- timestamps ------------------------------ *)

\* datetime.isoformat() of the clock reading n.
IsoFormat(n) == <<"T">> \o Digits(n)

IsDate(s) == Len(s) >= 2 /\ s[1] = "T" /\ AllDigits(Tail(s))

ParseDate(s) == DigitsVal(Tail(s))

(* ------------------------------ letters ------------------------------- *)

LowerChars == <<"a", "b", "c", "d", "e", "f", "g", "h", "i", "j", "k", "l", "m", "n", "o", "p", "q", "r", "s", "t", "u", "v", "w", "x", "y", "z">>

UpperChars == <<"A", "B", "C", "D", "E", "F", "G", "H", "I", "J", "K", "L", "M", "N", "O", "P", "Q", "R", "S", "T", "U", "V", "W", "X", "Y", "Z">>

ToUpper(c) == IF \E i \in 1..26 : LowerChars[i] = c
              THEN UpperChars[CHOOSE i \in 1..26 : LowerChars[i] = c] ELSE c

ToLower(c) == IF \E i \in 1..26 : UpperChars[i] = c
              THEN LowerChars[CHOOSE i \in 1..26 : UpperChars[i] = c] ELSE c

\* str.capitalize()
Capitalize(s) == [i \in 1..Len(s) |-> IF i = 1 THEN ToUpper(s[i]) ELSE ToLower(s[i])]

\* str.split()[0]: the first whitespace-separated word.
FirstWord(s) == LET words == SelectSeq(Split(s, " "), LAMBDA w : w # <<>>)
                IN  IF words = <<>> THEN <<>> ELSE words[1]

(* ------------------------------ the CSV ------------------------------- *)

DATA_HEADER ==
    << <<"T", "i", "m", "e">>,
       <<"P", "i", "n", "g", " ", "(", "m", "s", ")">>,
       <<"D", "o", "w", "n", "l", "o", "a", "d", " ", "S", "p", "e"
         , "e", "d", " ", "(", "M", "b", "s", ")">>,
       <<"U", "p", "l", "o", "a", "d", " ", "S", "p", "e", "e", "d"
         , " ", "(", "M", "b", "s", ")">> >>

\* ','.join(DATA_HEADER) + '\n'
HeaderText == Join(DATA_HEADER, COMMA) \o <<NL>>

\* row = [now.isoformat(), *[str(i) for i in results]]
MakeRow(t, res) == <<IsoFormat(t)>> \o [i \in 1..Len(res) |-> StrFloat(res[i])]

RowTextNoNewline(r) == Join(r, COMMA)

\* ','.join(row) + '\n'
RowText(r) == Join(r, COMMA) \o <<NL>>

\* The lines pandas sees: split at newlines, blank lines skipped.
CsvLines(text) == SelectSeq(Split(text, NL), LAMBDA l : l # <<>>)

\* The fields of each line.
CsvRecords(text) == LET ls == CsvLines(text)
                    IN  [i \in 1..Len(ls) |-> Split(ls[i], COMMA)]

\* Position of the column called name in the header record (0: none).
ColumnIndex(head, name) ==
    IF \E i \in 1..Len(head) : head[i] = name
    THEN CHOOSE i \in 1..Len(head) :
             head[i] = name /\ \A j \in 1..(i - 1) : head[j] # name
    ELSE 0

\* The field of a record at a column; a record that is too short has none.
FieldAt(rec, k) == IF k <= Len(rec) THEN rec[k] ELSE <<>>

NaN == [kind |-> "nan"]

\* A numeric column stays numeric only while every field of it reads as a
\* number (an empty field is NaN); otherwise the column keeps its strings.
NumberColumn(fields) ==
    IF \A i \in 1..Len(fields) : fields[i] = <<>> \/ IsNumeric(fields[i])
    THEN [i \in 1..Len(fields) |->
             IF fields[i] = <<>> THEN NaN
             ELSE LET x == ParseFloat(fields[i])
                  IN  [kind |-> "num", m |-> x.m, e |-> x.e]]
    ELSE [i \in 1..Len(fields) |->
             IF fields[i] = <<>> THEN NaN ELSE [kind |-> "str", s |-> fields[i]]]

\* parse_dates: the column becomes timestamps only if every field is one.
DateColumn(fields) ==
    IF \A i \in 1..Len(fields) : fields[i] = <<>> \/ IsDate(fields[i])
    THEN [i \in 1..Len(fields) |->
             IF fields[i] = <<>> THEN NaN
             ELSE [kind |-> "time", t |-> ParseDate(fields[i])]]
    ELSE [i \in 1..Len(fields) |->
             IF fields[i] = <<>> THEN NaN ELSE [kind |-> "str", s |-> fields[i]]]

\* rename = {i: i.split()[0].strip().capitalize() for i in DATA_HEADER}
Renamed == [i \in 1..Len(DATA_HEADER) |-> Capitalize(FirstWord(DATA_HEADER[i]))]

NoData == [columns |-> <<>>, rows |-> <<>>]

Raise(e) == [ok |-> FALSE, err |-> e, data |-> NoData]

TimeKey(r) == IF r[1].kind = "time" THEN r[1].t ELSE 0

RECURSIVE InsertByTime(_, _)
InsertByTime(r, sorted) ==
    IF sorted = <<>> THEN <<r>>
    ELSE IF TimeKey(r) < TimeKey(sorted[1]) THEN <<r>> \o sorted
    ELSE <<sorted[1]>> \o InsertByTime(r, Tail(sorted))

RECURSIVE SortedByTime(_)
SortedByTime(rows) ==
    IF rows = <<>> THEN <<>>
    ELSE InsertByTime(rows[Len(rows)], SortedByTime(SubSeq(rows, 1, Len(rows) - 1)))

\* The rows of the DataFrame are in the order of the file.
FileOrder(rows) == rows

\* pd.read_csv(path, usecols=DATA_HEADER, parse_dates=[0]) and the rename.
readResults(present, text) ==
    IF ~present THEN Raise("FileNotFoundError")
    ELSE LET recs == CsvRecords(text)
         IN  IF recs = <<>> THEN Raise("EmptyDataError")
             ELSE LET head == recs[1]
                      body == Tail(recs)
                      col(k) == [i \in 1..Len(body) |->
                                    FieldAt(body[i], ColumnIndex(head, DATA_HEADER[k]))]
                  IN  IF \E k \in 1..Len(DATA_HEADER) :
                             ColumnIndex(head, DATA_HEADER[k]) = 0
                      THEN Raise("ValueError")
                      ELSE LET time == DateColumn(col(1))
                               ping == NumberColumn(col(2))
                               down == NumberColumn(col(3))
                               up   == NumberColumn(col(4))
                           IN  [ok   |-> TRUE,
                                err  |-> "",
                                data |-> [columns |-> Renamed,
                                          rows    |-> FileOrder(
                                              [i \in 1..Len(body) |->
                                                  <<time[i], ping[i], down[i], up[i]>>])]]

(* --------------------------- the program ------------------------------ *)

\* Processes that may run main() on the same two paths.
Procs == {1, 2}

\* What the speed test can report: latency in ms, download and upload in bits/s.
Latencies == {Dec(234, 1)}

DownBits == {87100000, 5000000}

\* The download rate of a line that always delivers the same.
SteadyDown == {87100000}

UpBits == {12300000}

\* What datetime.now() can return; the clock is not monotonic.
Times == {1, 2}

VARIABLES
    procs,     \* the processes that run main()
    rates,     \* the download rates (bits/s) the line can deliver
    present,   \* whether the data file exists
    content,   \* the text of the data file
    html,      \* the chart file: the data last plotted into it
    runs,      \* runs of main() started so far
    pc,        \* where each process is
    netRes,    \* main: the result of allTests()
    now,       \* storeResults: now
    row,       \* storeResults: row
    header,    \* storeResults: header
    buf,       \* storeResults: text written to `out` and not yet flushed
    results,   \* main: the DataFrame readResults() returned
    err,       \* the exception that ended the run
    trace,     \* history: the stages the run has entered
    start,     \* history: the two files when the run started
    pre,       \* history: the data file when storeResults() was called
    okAppends, \* history: calls of storeResults() that returned
    badAppends \* history: calls of storeResults() that raised

vars == <<procs, rates, present, content, html, runs, pc, netRes, now, row, header, buf,
          results, err, trace, start, pre, okAppends, badAppends>>

fileVars == <<present, content>>

storeLocals == <<now, row, header, buf>>

history == <<start, pre, okAppends, badAppends>>

NoRes == <<>>

NoFile == [present |-> FALSE, content |-> <<>>]

\* The stage of the pipeline a position of the code belongs to.
Phase(l) ==
    CASE l = "Idle" -> "Idle"
      [] l = "Measuring" -> "Measuring"
      [] l \in {"Store", "Open", "WriteHeader", "WriteRow", "Close"} -> "Persisting"
      [] l \in {"Read", "Plot"} -> "Rendering"
      [] l = "Done" -> "Done"
      [] l = "Failed" -> "Failed"
      [] OTHER -> "Off"

MainOrderReadFirst(f) ==
    CASE f = "allTests" -> "Read"
      [] f = "readResults" -> "Store"
      [] f = "storeResults" -> "Plot"
      [] OTHER -> "Done"

\* main(): where control goes when the call of f returns.
MainOrder(f) ==
    CASE f = "allTests" -> "Store"
      [] f = "storeResults" -> "Read"
      [] f = "readResults" -> "Plot"
      [] OTHER -> "Done"

\* Control of p moves to position l; entering a new stage is recorded.
Goto(p, l) ==
    /\ pc' = [pc EXCEPT ![p] = l]
    /\ trace' = [trace EXCEPT ![p] =
                    IF Phase(l) # Phase(pc[p]) THEN Append(@, Phase(l)) ELSE @]

\* An exception e leaves main().
RaiseOut(p, e) ==
    /\ Goto(p, "Failed")
    /\ err' = [err EXCEPT ![p] = e]

InitLocals ==
    /\ netRes = [p \in Procs |-> NoRes]
    /\ now = [p \in Procs |-> 0]
    /\ row = [p \in Procs |-> <<>>]
    /\ header = [p \in Procs |-> FALSE]
    /\ buf = [p \in Procs |-> <<>>]
    /\ results = [p \in Procs |-> NoData]
    /\ err = [p \in Procs |-> ""]
    /\ pre = [p \in Procs |-> NoFile]
    /\ okAppends = 0
    /\ badAppends = 0

InitProcs(ps) ==
    /\ procs = ps
    /\ runs = Cardinality(ps)
    /\ pc = [p \in Procs |-> IF p \in ps THEN "Idle" ELSE "Off"]
    /\ trace = [p \in Procs |-> IF p \in ps THEN <<"Idle">> ELSE <<>>]
    /\ start = [p \in Procs |-> [present |-> present, content |-> content, html |-> html]]

\* One process, no data file and no chart yet.
Init ==
    /\ present = FALSE
    /\ content = <<>>
    /\ html = NoData
    /\ rates = DownBits
    /\ InitLocals
    /\ InitProcs({1})

\* One or two processes, no data file and no chart yet.
InitConc ==
    /\ present = FALSE
    /\ content = <<>>
    /\ html = NoData
    /\ rates = SteadyDown
    /\ InitLocals
    /\ \E ps \in {{1}, {1, 2}} : InitProcs(ps)

\* Fields a stored row may hold where a number is expected.
StoredFields == {StrFloat(Dec(234, 1)), <<"n", "/", "a">>}

StoredRows == {RowText(<<IsoFormat(1), a, b, StrFloat(DivMillion(12300000))>>) :
                  a \in StoredFields, b \in StoredFields}

RECURSIVE StoredTexts(_)
\* The texts of at most k stored rows.
StoredTexts(k) == IF k = 0 THEN {<<>>}
                  ELSE StoredTexts(k - 1)
                       \cup {t \o r : t \in StoredTexts(k - 1), r \in StoredRows}

\* One process; the data file given on the command line may already exist,
\* with the header and rows written by earlier runs or by hand.
InitStored ==
    /\ \/ present = FALSE /\ content = <<>>
       \/ present = TRUE /\ \E t \in StoredTexts(MaxStoredRows) : content = HeaderText \o t
    /\ html = NoData
    /\ rates = SteadyDown
    /\ InitLocals
    /\ InitProcs({1})

\* The scheduler starts main() again.
StartRun(p) ==
    /\ pc[p] \in {"Done", "Failed"}
    /\ runs < MaxRuns
    /\ runs' = runs + 1
    /\ pc' = [pc EXCEPT ![p] = "Idle"]
    /\ trace' = [trace EXCEPT ![p] = <<"Idle">>]
    /\ netRes' = [netRes EXCEPT ![p] = NoRes]
    /\ now' = [now EXCEPT ![p] = 0]
    /\ row' = [row EXCEPT ![p] = <<>>]
    /\ header' = [header EXCEPT ![p] = FALSE]
    /\ buf' = [buf EXCEPT ![p] = <<>>]
    /\ results' = [results EXCEPT ![p] = NoData]
    /\ err' = [err EXCEPT ![p] = ""]
    /\ start' = [start EXCEPT ![p] =
                    [present |-> present, content |-> content, html |-> html]]
    /\ pre' = [pre EXCEPT ![p] = NoFile]
    /\ UNCHANGED <<procs, rates, fileVars, html, okAppends, badAppends>>

\* main: netRes = allTests() is called.
CallProbe(p) ==
    /\ pc[p] = "Idle"
    /\ Goto(p, "Measuring")
    /\ UNCHANGED <<procs, rates, fileVars, html, runs, netRes, storeLocals, results, err, history>>

\* allTests() returns server['latency'], down / 1e6, up / 1e6.
ProbeOk(p) ==
    /\ pc[p] = "Measuring"
    /\ \E lat \in Latencies, down \in rates, up \in UpBits :
           netRes' = [netRes EXCEPT ![p] = <<lat, DivMillion(down), DivMillion(up)>>]
    /\ Goto(p, MainOrder("allTests"))
    /\ UNCHANGED <<procs, rates, fileVars, html, runs, storeLocals, results, err, history>>

ProbeErrorSwallowed == MainOrder("allTests")

\* main() has no try/except around allTests(): its exception ends the run.
ProbeErrorTarget == "Failed"

\* The speed test raises (no server, no network).
ProbeFail(p) ==
    /\ pc[p] = "Measuring"
    /\ Goto(p, ProbeErrorTarget)
    /\ err' = [err EXCEPT ![p] = "ProbeUnavailable"]
    /\ UNCHANGED <<procs, rates, fileVars, html, runs, netRes, storeLocals, results, history>>

HeaderAlways(there) == TRUE

\* header = not path.exists()
NeedHeader(there) == ~there

\* storeResults up to the check of the path: now, row, header.
StoreBegin(p) ==
    /\ pc[p] = "Store"
    /\ \E t \in Times :
           /\ now' = [now EXCEPT ![p] = t]
           /\ row' = [row EXCEPT ![p] = MakeRow(t, netRes[p])]
    /\ header' = [header EXCEPT ![p] = NeedHeader(present)]
    /\ pre' = [pre EXCEPT ![p] = [present |-> present, content |-> content]]
    /\ Goto(p, "Open")
    /\ UNCHANGED <<procs, rates, fileVars, html, runs, netRes, buf, results, err,
                   start, okAppends, badAppends>>

OpenTruncating(text) == <<>>

\* What open(path, 'at') leaves of the text of a file (an absent one has none).
OpenForAppend(text) == text

\* open(path, 'at') creates the file if there is none.
StoreOpen(p) ==
    /\ pc[p] = "Open"
    /\ present' = TRUE
    /\ content' = OpenForAppend(content)
    /\ buf' = [buf EXCEPT ![p] = <<>>]
    /\ Goto(p, "WriteHeader")
    /\ UNCHANGED <<procs, rates, html, runs, netRes, now, row, header, results, err, history>>

\* open() raises (permission denied, no such directory): nothing is created.
StoreOpenFail(p) ==
    /\ pc[p] = "Open"
    /\ RaiseOut(p, "StoreWriteError")
    /\ badAppends' = badAppends + 1
    /\ UNCHANGED <<procs, rates, fileVars, html, runs, netRes, storeLocals, results,
                   start, pre, okAppends>>

\* if header: out.writelines(','.join(DATA_HEADER) + '\n')
StoreWriteHeader(p) ==
    /\ pc[p] = "WriteHeader"
    /\ buf' = [buf EXCEPT ![p] = IF header[p] THEN @ \o HeaderText ELSE @]
    /\ Goto(p, "WriteRow")
    /\ UNCHANGED <<procs, rates, fileVars, html, runs, netRes, now, row, header, results,
                   err, history>>

\* out.write(','.join(row) + '\n')
StoreWriteRow(p) ==
    /\ pc[p] = "WriteRow"
    /\ buf' = [buf EXCEPT ![p] = @ \o RowText(row[p])]
    /\ Goto(p, "Close")
    /\ UNCHANGED <<procs, rates, fileVars, html, runs, netRes, now, row, header, results,
                   err, history>>

\* The end of the with block: the buffered text is appended to the file in
\* one write and storeResults returns.
StoreClose(p) ==
    /\ pc[p] = "Close"
    /\ content' = content \o buf[p]
    /\ buf' = [buf EXCEPT ![p] = <<>>]
    /\ okAppends' = okAppends + 1
    /\ Goto(p, MainOrder("storeResults"))
    /\ UNCHANGED <<procs, rates, present, html, runs, netRes, now, row, header, results,
                   err, start, pre, badAppends>>

\* An exception inside the with block (a write raises, the run is
\* interrupted): the with statement closes the file, which flushes what was
\* written so far, and the exception leaves main().
StoreBodyFail(p) ==
    /\ pc[p] \in {"WriteHeader", "WriteRow"}
    /\ content' = content \o buf[p]
    /\ buf' = [buf EXCEPT ![p] = <<>>]
    /\ badAppends' = badAppends + 1
    /\ RaiseOut(p, "StoreWriteError")
    /\ UNCHANGED <<procs, rates, present, html, runs, netRes, now, row, header, results,
                   start, pre, okAppends>>

\* The flush at the end of the with block raises (disk full): none of the
\* buffered text reaches the file.
StoreFlushFail(p) ==
    /\ pc[p] = "Close"
    /\ buf' = [buf EXCEPT ![p] = <<>>]
    /\ badAppends' = badAppends + 1
    /\ RaiseOut(p, "StoreWriteError")
    /\ UNCHANGED <<procs, rates, fileVars, html, runs, netRes, now, row, header, results,
                   start, pre, okAppends>>

\* main: results = readResults(args.data_file)
ReadOk(p) ==
    /\ pc[p] = "Read"
    /\ readResults(present, content).ok
    /\ results' = [results EXCEPT ![p] = readResults(present, content).data]
    /\ Goto(p, MainOrder("readResults"))
    /\ UNCHANGED <<procs, rates, fileVars, html, runs, netRes, storeLocals, err, history>>

\* pd.read_csv raises; main() does not catch it.
ReadFail(p) ==
    /\ pc[p] = "Read"
    /\ ~readResults(present, content).ok
    /\ RaiseOut(p, readResults(present, content).err)
    /\ UNCHANGED <<procs, rates, fileVars, html, runs, netRes, storeLocals, results, history>>

PlotTruncatesData(text) == <<>>

\* plotGraph writes to the html path only: the text of the data file after it.
DataAfterPlot(text) == text

\* plotGraph(results, args.html_file) saves the plot of the data it was given.
PlotOk(p) ==
    /\ pc[p] = "Plot"
    /\ html' = results[p]
    /\ content' = DataAfterPlot(content)
    /\ Goto(p, MainOrder("plotGraph"))
    /\ UNCHANGED <<procs, rates, present, runs, netRes, storeLocals, results, err, history>>

\* plotGraph raises before save(layout) has written the chart.
PlotFail(p) ==
    /\ pc[p] = "Plot"
    /\ content' = DataAfterPlot(content)
    /\ RaiseOut(p, "RenderError")
    /\ UNCHANGED <<procs, rates, present, html, runs, netRes, storeLocals, results, history>>

Next ==
    \/ \E p \in procs : StartRun(p)
    \/ \E p \in procs : CallProbe(p)
    \/ \E p \in procs : ProbeOk(p)
    \/ \E p \in procs : ProbeFail(p)
    \/ \E p \in procs : StoreBegin(p)
    \/ \E p \in procs : StoreOpen(p)
    \/ \E p \in procs : StoreOpenFail(p)
    \/ \E p \in procs : StoreWriteHeader(p)
    \/ \E p \in procs : StoreWriteRow(p)
    \/ \E p \in procs : StoreClose(p)
    \/ \E p \in procs : StoreBodyFail(p)
    \/ \E p \in procs : StoreFlushFail(p)
    \/ \E p \in procs : ReadOk(p)
    \/ \E p \in procs : ReadFail(p)
    \/ \E p \in procs : PlotOk(p)
    \/ \E p \in procs : PlotFail(p)

\* One process running main() again and again.
Spec == Init /\ [][Next]_vars

\* One or two processes running main() on the same paths.
SpecConc == InitConc /\ [][Next]_vars

\* One process started on a data file that may already exist.
SpecStored == InitStored /\ [][Next]_vars

(* ----------------------------- properties ---------------------------- *)

Num(x) == [kind |-> "num", m |-> x.m, e |-> x.e]

\* The lines of a text, each ended by a newline.
TextLines(text) == LET parts == Split(text, NL)
                   IN  SubSeq(parts, 1, Len(parts) - 1)

EndsLines(text) == LET parts == Split(text, NL) IN parts[Len(parts)] = <<>>

IsDataRecord(rec) ==
    /\ Len(rec) = 4
    /\ IsDate(rec[1])
    /\ \A k \in 2..4 : IsNumeric(rec[k])

\* A store that is absent, or the header followed by k >= 0 data rows.
WellFormed(f) ==
    \/ ~f.present
    \/ LET recs == CsvRecords(f.content)
       IN  /\ EndsLines(f.content)
           /\ Len(TextLines(f.content)) = Len(recs)
           /\ recs # <<>>
           /\ recs[1] = DATA_HEADER
           /\ \A i \in 2..Len(recs) : IsDataRecord(recs[i])

\* The History of a store: none when absent.
HistoryOf(f) == IF f.present THEN readResults(TRUE, f.content).data.rows ELSE <<>>

InStore(p) == pc[p] \in {"Open", "WriteHeader", "WriteRow", "Close"}

ReadErrors == {"FileNotFoundError", "EmptyDataError", "ValueError"}

\* C1 (header-once): from a path with no file, after N >= 1 appends that all
\* succeeded (none failed), the file is exactly the header line followed by
\* N data lines, every line ended by a newline.
C1_HeaderOnce ==
    (badAppends = 0 /\ okAppends >= 1) =>
        LET lines == TextLines(content)
            recs  == CsvRecords(content)
        IN  /\ EndsLines(content)
            /\ Len(lines) = okAppends + 1
            /\ Len(recs) = okAppends + 1
            /\ recs[1] = DATA_HEADER
            /\ \A i \in 2..Len(recs) : IsDataRecord(recs[i])

C1_Witness ==
    /\ badAppends = 0
    /\ okAppends = 2
    /\ Len(CsvRecords(content)) = 3

\* C2 (append-only store): in every step the text of the file before is a
\* prefix of the text after and a file that exists keeps existing; the steps
\* of readResults and plotGraph leave the file as it is, so that reading it
\* again, before or after the plot, returns the History already read.
C2_AppendOnly ==
    [][ /\ IsPrefix(content, content')
        /\ (present => present')
        /\ \A p \in procs :
              /\ (pc[p] \in {"Read", "Plot"} /\ pc'[p] # pc[p]) =>
                     (content' = content /\ present' = present)
              /\ (pc[p] = "Plot" \/ pc'[p] = "Plot") =>
                     /\ readResults(present', content').ok
                     /\ readResults(present', content').data = results'[p]
      ]_vars

C2_Witness ==
    /\ pc[1] = "Done"
    /\ pre[1].present
    /\ pre[1].content # <<>>
    /\ content # pre[1].content
    /\ html = readResults(present, content).data

\* C3 (append-then-read round trip): on a well-formed store (absent, or the
\* header and k rows) an append that succeeded is followed by a read that
\* succeeds and returns k + 1 entries: the k entries of the previous History
\* in the order of the file, then one with the latency, download and upload
\* of the appended sample.
C3_RoundTrip ==
    \A p \in procs :
        WellFormed(pre[p]) =>
            /\ (pc[p] = "Failed") => err[p] \notin ReadErrors
            /\ (pc[p] = "Plot") =>
                   LET before == HistoryOf(pre[p])
                       k      == Len(before)
                       rows   == results[p].rows
                   IN  /\ Len(rows) = k + 1
                       /\ SubSeq(rows, 1, k) = before
                       /\ rows[k + 1][2] = Num(netRes[p][1])
                       /\ rows[k + 1][3] = Num(netRes[p][2])
                       /\ rows[k + 1][4] = Num(netRes[p][3])

C3_Witness ==
    /\ pc[1] = "Plot"
    /\ WellFormed(pre[1])
    /\ pre[1].present
    /\ Len(results[1].rows) >= 2
    /\ results[1].rows[1][1].t > results[1].rows[2][1].t

\* C4 (failed append is atomic): when an append has failed, the store is as
\* it was before the append: still absent if it was absent, with the same
\* text otherwise.
C4_FailedAppendAtomic ==
    \A p \in procs :
        (pc[p] = "Failed" /\ err[p] = "StoreWriteError") =>
            (present = pre[p].present /\ content = pre[p].content)

\* C5 (probe failure aborts the run): once the probe has failed the run is
\* in Failed, having entered no stage after Measuring: nothing was appended,
\* read or plotted, and the store and the chart are as they were when the
\* run started.
C5_ProbeFailureAborts ==
    \A p \in procs :
        (err[p] = "ProbeUnavailable") =>
            /\ pc[p] = "Failed"
            /\ trace[p] = <<"Idle", "Measuring", "Failed">>
            /\ row[p] = <<>>
            /\ results[p] = NoData
            /\ present = start[p].present
            /\ content = start[p].content
            /\ html = start[p].html

C5_Witness ==
    /\ pc[1] = "Failed"
    /\ err[1] = "ProbeUnavailable"
    /\ ~present
    /\ runs = 2

\* C6 (failure isolation): when the renderer has failed, the store holds the
\* records it held before the append of this run (after the header, if the
\* run created the file), followed by the row of this run's sample, and an
\* independent read returns that sample as the last entry.
C6_FailureIsolation ==
    \A p \in procs :
        (pc[p] = "Failed" /\ err[p] = "RenderError") =>
            LET recs == CsvRecords(content)
                old  == IF pre[p].present THEN CsvRecords(pre[p].content)
                        ELSE <<DATA_HEADER>>
                back == readResults(present, content)
            IN  /\ IsPrefix(pre[p].content, content)
                /\ recs = old \o <<MakeRow(now[p], netRes[p])>>
                /\ back.ok
                /\ LET last == back.data.rows[Len(back.data.rows)]
                   IN  /\ last[1].kind = "time" => last[1].t = now[p]
                       /\ <<last[2], last[3], last[4]>> =
                              <<Num(netRes[p][1]), Num(netRes[p][2]), Num(netRes[p][3])>>

C6_Witness ==
    /\ pc[1] = "Failed"
    /\ err[1] = "RenderError"
    /\ pre[1].present
    /\ Len(CsvRecords(content)) >= 3

\* C7 (corrupt-row detection): readResults never returns, and the renderer
\* is never given, a History with a row whose latency or throughput is not
\* a number.
C7_CorruptRowDetected ==
    \A p \in procs :
        (pc[p] = "Plot") =>
            \A i \in 1..Len(results[p].rows) :
                \A k \in 2..4 : results[p].rows[i][k].kind # "str"

\* The stages of a run, in order.
Stages == <<"Idle", "Measuring", "Persisting", "Rendering", "Done">>

\* What a run may have gone through: the stages in order up to some stage,
\* then possibly Failed in place of the next one.
RunTraces ==
    {SubSeq(Stages, 1, n) : n \in 1..5}
        \cup {Append(SubSeq(Stages, 1, n), "Failed") : n \in 1..4}

\* C8 (pipeline ordering): a run goes through Idle, Measuring, Persisting,
\* Rendering in that order, without skipping or repeating one, and ends in
\* Done or Failed; the append starts only with a probe result; the renderer
\* starts only when the append and the read have succeeded, with the History
\* of the store whose last entry is this run's sample; a run that is Done
\* has added exactly its one row (after the header on a new file).
C8_PipelineOrder ==
    \A p \in procs :
        /\ trace[p] \in RunTraces
        /\ trace[p][Len(trace[p])] = Phase(pc[p])
        /\ Phase(pc[p]) = "Persisting" => netRes[p] # NoRes
        /\ pc[p] \in {"Plot", "Done"} =>
               /\ content = start[p].content
                              \o (IF start[p].present THEN <<>> ELSE HeaderText)
                              \o RowText(MakeRow(now[p], netRes[p]))
               /\ Len(CsvRecords(content)) =
                      Len(CsvRecords(start[p].content))
                          + (IF start[p].present THEN 1 ELSE 2)
               /\ results[p] = readResults(present, content).data
               /\ LET last == results[p].rows[Len(results[p].rows)]
                  IN  <<last[2], last[3], last[4]>> =
                          <<Num(netRes[p][1]), Num(netRes[p][2]), Num(netRes[p][3])>>
        /\ pc[p] = "Done" => html = results[p]

C8_Witness ==
    /\ pc[1] = "Done"
    /\ start[1].present
    /\ trace[1] = Stages
    /\ Len(results[1].rows) = 2

\* C9 (header-present): whenever no append is under way, a store file that
\* exists starts with the header line.
C9_HeaderPresent ==
    (present /\ \A p \in procs : ~InStore(p)) => IsPrefix(HeaderText, content)

\* A header line after the first line of the file.
HeaderRepeated(text) ==
    LET recs == CsvRecords(text)
    IN  \E i \in 2..Len(recs) : recs[i] = DATA_HEADER

\* C10 (concurrent appends): with one writer the file never holds a second
\* header line or a header line after a data row; two writers appending to
\* the same new path can reach such a file.
C10_OneWriterOneHeader ==
    (Cardinality(procs) = 1) => ~HeaderRepeated(content)

C10_Witness ==
    /\ Cardinality(procs) = 2
    /\ HeaderRepeated(content)
    /\ \E i \in 2..Len(CsvRecords(content)) : IsDataRecord(CsvRecords(content)[i])

=============================================================================
